---- MODULE Spec2Model ----
\* Multi-shift conjugate gradient (CG-M), cusp/krylov/detail/cg_m.inl.
\*
\* Scalars are the real ValueType in exact arithmetic, extended with the IEEE
\* special values the code produces when it divides by zero:
\*   <<n, d>> with d > 0 and gcd(n, d) = 1   the rational n/d
\*   <<1, 0>>  +Inf      <<-1, 0>>  -Inf      <<0, 0>>  NaN
\* Zero carries no sign: x / 0 is +Inf or -Inf by the sign of x, 0 / 0 is NaN.
\* ValueType is a real type, so the conjugate in dotc is the identity.
\* Arrays are sequences; the code's 0-based element k is element k+1 here.
\* Assertions are compiled in: a failed assert ends the call where it stands.
EXTENDS Integers, Sequences, FiniteSets, TLC

\* ---------------------------------------------------------------- bounds
MaxIter == 4
MaxShift == 2
MaxB == 1
MaxDest == 6

\* ------------------------------------------------------- scalar arithmetic
Abs(n) == IF n < 0 THEN -n ELSE n

Sgn(n) == IF n < 0 THEN -1 ELSE IF n = 0 THEN 0 ELSE 1

RECURSIVE Gcd(_, _)
Gcd(a, b) == IF b = 0 THEN a ELSE Gcd(b, a % b)

Norm(n, d) ==
  IF d = 0 THEN <<Sgn(n), 0>>
  ELSE LET g == Gcd(Abs(n), Abs(d))
       IN  IF d < 0 THEN <<(0 - n) \div g, (0 - d) \div g>> ELSE <<n \div g, d \div g>>

Num(k) == <<k, 1>>

NaN == <<0, 0>>

\* a local of scalar type that was declared and never assigned
Indeterminate == <<0, -1>>

IsFinite(a) == a[2] > 0

IsNaN(a) == a = NaN

Neg(a) == <<0 - a[1], a[2]>>

Add(a, b) ==
  IF a[2] = 0 /\ b[2] = 0 THEN (IF a = b THEN a ELSE NaN)
  ELSE IF a[2] = 0 THEN a
  ELSE IF b[2] = 0 THEN b
  ELSE LET g == Gcd(a[2], b[2])
       IN  Norm(a[1] * (b[2] \div g) + b[1] * (a[2] \div g), (a[2] \div g) * b[2])

Sub(a, b) == Add(a, Neg(b))

Mul(a, b) ==
  IF a[2] = 0 \/ b[2] = 0 THEN <<Sgn(a[1]) * Sgn(b[1]), 0>>
  ELSE LET g == Gcd(Abs(a[1]), b[2])
           h == Gcd(Abs(b[1]), a[2])
       IN  Norm((a[1] \div g) * (b[1] \div h), (a[2] \div h) * (b[2] \div g))

Recip(a) == IF a[1] < 0 THEN <<0 - a[2], 0 - a[1]>> ELSE <<a[2], a[1]>>

Div(a, b) ==
  IF b[2] = 0 THEN (IF a[2] = 0 THEN NaN ELSE (IF b = NaN THEN NaN ELSE Num(0)))
  ELSE Mul(a, Norm(Recip(b)[1], Recip(b)[2]))

\* IEEE comparisons: every comparison with NaN is false
Eq(a, b) == ~IsNaN(a) /\ ~IsNaN(b) /\ a = b

Leq(a, b) ==
  /\ ~IsNaN(a)
  /\ ~IsNaN(b)
  /\ IF a[2] = 0 /\ b[2] = 0 THEN a[1] <= b[1]
     ELSE IF a[2] = 0 THEN a[1] < 0
     ELSE IF b[2] = 0 THEN b[1] > 0
     ELSE a[1] * b[2] <= b[1] * a[2]

\* ------------------------------------------- cusp::blas, cusp::multiply
\* element k (0-based) of an array
At(v, k) == v[k + 1]

fill(n, val) == [k \in 1..n |-> val]

copy(src) == src

RECURSIVE dotcFrom(_, _, _)
dotcFrom(u, v, k) ==
  IF k > Len(u) THEN Num(0) ELSE Add(Mul(u[k], v[k]), dotcFrom(u, v, k + 1))

dotc(u, v) == dotcFrom(u, v, 1)

\* axpy(x, y, alpha): y <- y + alpha * x
axpy(xv, yv, alpha) == [k \in 1..Len(yv) |-> Add(yv[k], Mul(alpha, xv[k]))]

scal(xv, alpha) == [k \in 1..Len(xv) |-> Mul(alpha, xv[k])]

\* y = A * x for a dense operator given by its rows
multiply(Aop, xv) == [i \in 1..Aop.num_rows |-> dotc(Aop.rows[i], xv)]

assert_same_dimensions(u, v) == Len(u) = Len(v)

\* ------------------------------------------------------------- detail_m
\* a zeta-update that drops the shift term beta_0 * sigma
KERNEL_Z_NoShift(beta_m1, beta_0, alpha_0, z0, zm1, sig) ==
  Div(Mul(Mul(z0, zm1), beta_m1),
      Add(Mul(Mul(beta_0, alpha_0), Sub(zm1, z0)), Mul(Mul(beta_m1, zm1), Num(1))))

\* tuple t = (z_1, z_0, z_m1, sig); returns the value stored in get<0>(t)
KERNEL_Z(beta_m1, beta_0, alpha_0, z0, zm1, sig) ==
  Div(Mul(Mul(z0, zm1), beta_m1),
      Add(Mul(Mul(beta_0, alpha_0), Sub(zm1, z0)),
          Mul(Mul(beta_m1, zm1), Sub(Num(1), Mul(beta_0, sig)))))

\* a beta-update with the two generations of zeta exchanged
KERNEL_B_Exchanged(beta_0, z1, z0) == Div(Mul(beta_0, z0), z1)

\* tuple t = (beta_0_s, z_1, z_0)
KERNEL_B(beta_0, z1, z0) == Div(Mul(beta_0, z1), z0)

\* an alpha-update that multiplies by alpha_0 where the code multiplies by
\* alpha_0 / beta_0
KERNEL_A_NoRatio(beta_0, alpha_0, z0, z1, b0s) ==
  Div(Mul(Mul(alpha_0, z1), b0s), z0)

\* tuple t = (alpha_0_s, z_0, z_1, beta_0_s)
KERNEL_A(beta_0, alpha_0, z0, z1, b0s) ==
  Div(Mul(Mul(Div(alpha_0, beta_0), z1), b0s), z0)

KERNEL_X(N, beta_0_s, p_0_s, index, val) ==
  LET N_s == index \div N
  IN  Sub(val, Mul(At(beta_0_s, N_s), At(p_0_s, index)))

KERNEL_P(N, alpha_0_s, z_1_s, r_0, index, val) ==
  LET N_s == index \div N
      N_i == index % N
  IN  Add(Mul(At(z_1_s, N_s), At(r_0, N_i)), Mul(At(alpha_0_s, N_s), val))

\* a copy functor that is off by one element
KERNEL_VCOPY_OffByOne(N_t, source, index) ==
  LET N == (index + 1) % N_t
  IN  At(source, N)

\* N_t is the functor's field of that name; vectorize_copy stores the SOURCE
\* length in it
KERNEL_VCOPY(N_t, source, index) ==
  LET N == index % N_t
  IN  At(source, N)

\* -------------------------------------------------------------- trans_m
compute_z_m(z_0_s, z_m1_s, sig, beta_m1, beta_0, alpha_0) ==
  [i \in 1..Len(z_0_s) |-> KERNEL_Z(beta_m1, beta_0, alpha_0, z_0_s[i], z_m1_s[i], sig[i])]

compute_b_m(z_1_s, z_0_s, beta_0) ==
  [i \in 1..Len(z_1_s) |-> KERNEL_B(beta_0, z_1_s[i], z_0_s[i])]

compute_a_m(z_0_s, z_1_s, beta_0_s, beta_0, alpha_0) ==
  [i \in 1..Len(z_0_s) |-> KERNEL_A(beta_0, alpha_0, z_0_s[i], z_1_s[i], beta_0_s[i])]

\* two transforms in sequence: all of x first, then all of p
compute_xp_m_swapped(alpha_0_s, z_1_s, beta_0_s, r_0, x_0_s, p_0_s) ==
  LET N == Len(r_0)
      N_t == Len(x_0_s)
      pn == [k \in 1..N_t |-> KERNEL_P(N, alpha_0_s, z_1_s, r_0, k - 1, p_0_s[k])]
      xn == [k \in 1..N_t |-> KERNEL_X(N, beta_0_s, pn, k - 1, x_0_s[k])]
  IN  [x |-> xn, p |-> pn]

compute_xp_m(alpha_0_s, z_1_s, beta_0_s, r_0, x_0_s, p_0_s) ==
  LET N == Len(r_0)
      N_t == Len(x_0_s)
      xn == [k \in 1..N_t |-> KERNEL_X(N, beta_0_s, p_0_s, k - 1, x_0_s[k])]
      pn == [k \in 1..N_t |-> KERNEL_P(N, alpha_0_s, z_1_s, r_0, k - 1, p_0_s[k])]
  IN  [x |-> xn, p |-> pn]

vectorize_copy_ok(source, dest) == Len(dest) % Len(source) = 0

vectorize_copy(source, dest) ==
  LET N == Len(source)
      N_t == Len(dest)
  IN  [k \in 1..N_t |-> KERNEL_VCOPY(N, source, k - 1)]

\* ---------------------------------------------------------------- monitor
\* A Monitor: finished(r) and the iteration advance. tol_sq is the square of the
\* tolerance (dotc(r, r) <= tol_sq is ||r|| <= tol); a monitor may also stop at an
\* iteration limit, or never stop at all.
Monitor(use_tol, tol_sq, use_limit, limit) ==
  [use_tol |-> use_tol, tol_sq |-> tol_sq, use_limit |-> use_limit,
   iteration_limit |-> limit, iteration_count |-> 0]

finished(m, r) ==
  \/ m.use_tol /\ Leq(dotc(r, r), m.tol_sq)
  \/ m.use_limit /\ m.iteration_count >= m.iteration_limit

advance(m) == [m EXCEPT !.iteration_count = @ + 1]

\* ------------------------------------------------------------------ inputs
RECURSIVE Vectors(_, _)
Vectors(n, S) ==
  IF n = 0 THEN {<<>>} ELSE {Append(v, e) : v \in Vectors(n - 1, S), e \in S}

Rows(m) == [i \in 1..Len(m) |-> [j \in 1..Len(m[i]) |-> Num(m[i][j])]]

Dense(m) == [num_rows |-> Len(m), num_cols |-> Len(m[1]), rows |-> Rows(m)]

Identity(n) ==
  [num_rows |-> n, num_cols |-> n,
   rows |-> [i \in 1..n |-> [j \in 1..n |-> IF i = j THEN Num(1) ELSE Num(0)]]]

\* symmetric positive definite operators
SPDOperators ==
  {Identity(1), Identity(2), Identity(3), Dense(<<<<2>>>>), Dense(<<<<1, 0>>, <<0, 2>>>>),
   Dense(<<<<2, 1>>, <<1, 2>>>>), Dense(<<<<3, 1>>, <<1, 3>>>>), Dense(<<<<2, 1>>, <<1, 1>>>>),
   Dense(<<<<2, 1, 0>>, <<1, 2, 1>>, <<0, 1, 2>>>>)}

\* symmetric, not definite: (p, Ap) can vanish
IndefiniteOperators == {Dense(<<<<0, 1>>, <<1, 0>>>>)}

NonSquareOperators == {Dense(<<<<1, 0, 0>>, <<0, 1, 0>>>>)}

Operators == SPDOperators \cup IndefiniteOperators \cup NonSquareOperators

ShiftValues == -1..MaxShift

\* the strictly increasing sequence of the elements of S
RECURSIVE Ascending(_)
Ascending(S) ==
  IF S = {} THEN <<>>
  ELSE LET m == CHOOSE e \in S : \A o \in S : e >= o
       IN  Append(Ascending(S \ {m}), Num(m))

ShiftSets == {Ascending(S) : S \in SUBSET ShiftValues}

RightHandSides(n) == Vectors(n, {Num(k) : k \in 0..MaxB})

ToleranceSquares == {Num(0), <<1, 9>>, Num(1)}

Monitors ==
  {Monitor(TRUE, t, FALSE, 0) : t \in ToleranceSquares}
    \cup {Monitor(FALSE, Num(0), FALSE, 0), Monitor(TRUE, Num(0), TRUE, 1)}

\* what the caller's x holds before the call
Garbage == Num(7)

\* ------------------------------------------------------------------- state
VARIABLES call, pc, A, b, sigma, x, monitor,
          p_0_s, r_0, p_0, xx_0, z_m1_s, z_0_s, z_1_s, alpha_0_s, beta_0_s,
          beta_m1, beta_0, alpha_0, alpha_0_inv, Ap, pAp, rsq_0, rsq_1,
          multiplies, multiplied, queries, source, dest

inputs == <<call, A, b, sigma>>

arrays == <<p_0_s, r_0, p_0, xx_0, z_m1_s, z_0_s, z_1_s, alpha_0_s, beta_0_s, Ap>>

scalars == <<beta_m1, beta_0, alpha_0, alpha_0_inv, pAp, rsq_0, rsq_1>>

ghosts == <<multiplies, multiplied, queries>>

vcopy == <<source, dest>>

vars == <<inputs, pc, x, monitor, arrays, scalars, ghosts, vcopy>>

\* the locals N, N_t, test, N_s of cg_m
N == A.num_rows

N_t == Len(x)

test == Len(b)

N_s == Len(sigma)

NoLocals ==
  /\ p_0_s = <<>> /\ r_0 = <<>> /\ p_0 = <<>> /\ xx_0 = <<>> /\ Ap = <<>>
  /\ z_m1_s = <<>> /\ z_0_s = <<>> /\ z_1_s = <<>> /\ alpha_0_s = <<>> /\ beta_0_s = <<>>
  /\ beta_m1 = Indeterminate /\ beta_0 = Indeterminate /\ alpha_0 = Indeterminate
  /\ alpha_0_inv = Indeterminate /\ pAp = Indeterminate
  /\ rsq_0 = Indeterminate /\ rsq_1 = Indeterminate
  /\ multiplies = 0 /\ multiplied = <<>> /\ queries = 0

\* a call cg_m(A, x, b, sigma, monitor), before its first statement
InitCgm ==
  /\ call = "cg_m"
  /\ pc = "entry"
  /\ A \in Operators
  /\ b \in RightHandSides(A.num_rows) \cup {fill(A.num_rows + 1, Num(1))}
  /\ sigma \in ShiftSets
  /\ \E extra \in 0..1 : x = fill(A.num_rows * Len(sigma) + extra, Garbage)
  /\ monitor \in Monitors
  /\ NoLocals
  /\ source = <<>> /\ dest = <<>>

\* a call trans_m::vectorize_copy(source, dest), before its first statement
InitVCopy ==
  /\ call = "vectorize_copy"
  /\ pc = "entry"
  /\ \E n \in 1..3 : source \in RightHandSides(n)
  /\ \E n \in 0..MaxDest : dest = fill(n, Garbage)
  /\ A = Identity(1) /\ b = <<>> /\ sigma = <<>> /\ x = <<>>
  /\ monitor = Monitor(FALSE, Num(0), FALSE, 0)
  /\ NoLocals

Init == InitCgm \/ InitVCopy

\* -------------------------------------------------------------------- cg_m
\* a variant that leaves out the check of x's length
SanityChecks_NoXCheck ==
  /\ A.num_rows = A.num_cols
  /\ N = test

\* lines 424-426: the three entry assertions
SanityChecks ==
  /\ A.num_rows = A.num_cols
  /\ N_t = N * N_s
  /\ N = test

\* lines 418-426: a failed assertion ends the call there
cg_m_sanity ==
  /\ call = "cg_m" /\ pc = "entry"
  /\ pc' = IF SanityChecks THEN "setup" ELSE "aborted"
  /\ UNCHANGED <<inputs, x, monitor, arrays, scalars, ghosts, vcopy>>

\* lines 431-471: the locals and the initial conditions
cg_m_setup ==
  /\ call = "cg_m" /\ pc = "setup"
  /\ xx_0' = fill(N, Num(0))
  /\ z_m1_s' = fill(N_s, Num(1))
  /\ z_0_s' = fill(N_s, Num(1))
  /\ z_1_s' = fill(N_s, Num(0))
  /\ alpha_0_s' = fill(N_s, Num(0))
  /\ beta_0_s' = fill(N_s, Num(0))
  /\ beta_0' = Num(1)
  /\ alpha_0' = Num(0)
  /\ Ap' = fill(N, Num(0))
  /\ r_0' = copy(b)
  /\ rsq_1' = dotc(b, b)
  /\ x' = fill(N_t, Num(0))
  /\ IF vectorize_copy_ok(b, fill(N_t, Num(0)))
     THEN /\ p_0_s' = vectorize_copy(b, fill(N_t, Num(0)))
          /\ p_0' = copy(b)
          /\ pc' = "loop"
     ELSE /\ p_0_s' = fill(N_t, Num(0))
          /\ p_0' = fill(N, Num(0))
          /\ pc' = "aborted"
  /\ UNCHANGED <<inputs, monitor, beta_m1, alpha_0_inv, pAp, rsq_0, ghosts, vcopy>>

\* a variant of the loop test that does not consult the monitor before the
\* first iteration (a do-while)
cg_m_loop_test_dowhile ==
  /\ call = "cg_m" /\ pc = "loop"
  /\ IF monitor.iteration_count > 0 /\ finished(monitor, r_0)
     THEN pc' = "done"
     ELSE /\ monitor.iteration_count < MaxIter
          /\ pc' = "base_residual"
  /\ queries' = queries + 1
  /\ UNCHANGED <<inputs, x, monitor, arrays, scalars, multiplies, multiplied, vcopy>>

\* line 476: while (!monitor.finished(r_0)); the model follows at most MaxIter
\* iterations of a call
cg_m_loop_test ==
  /\ call = "cg_m" /\ pc = "loop"
  /\ IF finished(monitor, r_0)
     THEN pc' = "done"
     ELSE /\ monitor.iteration_count < MaxIter
          /\ pc' = "base_residual"
  /\ queries' = queries + 1
  /\ UNCHANGED <<inputs, x, monitor, arrays, scalars, multiplies, multiplied, vcopy>>

\* a variant that multiplies once per shift, on that shift's block of p_0_s
cg_m_base_residual_per_shift ==
  /\ call = "cg_m" /\ pc = "base_residual"
  /\ rsq_0' = rsq_1
  /\ beta_m1' = beta_0
  /\ Ap' = multiply(A, p_0)
  /\ multiplies' = multiplies + N_s
  /\ multiplied' = p_0_s
  /\ pAp' = dotc(p_0, Ap')
  /\ beta_0' = Div(Neg(rsq_0'), pAp')
  /\ r_0' = axpy(Ap', r_0, beta_0')
  /\ pc' = "shift_zeta_beta"
  /\ UNCHANGED <<inputs, x, monitor, p_0_s, p_0, xx_0, z_m1_s, z_0_s, z_1_s, alpha_0_s,
                 beta_0_s, alpha_0, alpha_0_inv, rsq_1, queries, vcopy>>

\* lines 479-492: recycle, Ap = A p_0, pAp, beta_0, new residual
cg_m_base_residual ==
  /\ call = "cg_m" /\ pc = "base_residual"
  /\ rsq_0' = rsq_1
  /\ beta_m1' = beta_0
  /\ Ap' = multiply(A, p_0)
  /\ multiplies' = multiplies + 1
  /\ multiplied' = p_0
  /\ pAp' = dotc(p_0, Ap')
  /\ beta_0' = Div(Neg(rsq_0'), pAp')
  /\ r_0' = axpy(Ap', r_0, beta_0')
  /\ pc' = "shift_zeta_beta"
  /\ UNCHANGED <<inputs, x, monitor, p_0_s, p_0, xx_0, z_m1_s, z_0_s, z_1_s, alpha_0_s,
                 beta_0_s, alpha_0, alpha_0_inv, rsq_1, queries, vcopy>>

\* lines 494-498: zeta_1^sigma, then beta_0^sigma
cg_m_shift_zeta_beta ==
  /\ call = "cg_m" /\ pc = "shift_zeta_beta"
  /\ IF /\ assert_same_dimensions(z_0_s, z_m1_s) /\ assert_same_dimensions(z_m1_s, z_1_s)
        /\ assert_same_dimensions(z_1_s, sigma) /\ assert_same_dimensions(z_0_s, beta_0_s)
     THEN /\ z_1_s' = compute_z_m(z_0_s, z_m1_s, sigma, beta_m1, beta_0, alpha_0)
          /\ beta_0_s' = compute_b_m(z_1_s', z_0_s, beta_0)
          /\ pc' = "base_direction"
     ELSE /\ pc' = "aborted"
          /\ UNCHANGED <<z_1_s, beta_0_s>>
  /\ UNCHANGED <<inputs, x, monitor, p_0_s, r_0, p_0, xx_0, z_m1_s, z_0_s, alpha_0_s, Ap,
                 scalars, ghosts, vcopy>>

\* lines 505-506 with the operands of the axpy exchanged: r_0 + alpha_0_inv p_0,
\* scaled by alpha_0
base_direction_exchanged(r, p, a, a_inv) == scal(axpy(p, r, a_inv), a)

\* lines 505-506: axpy(r_0, p_0, alpha_0_inv) then scal(p_0, alpha_0)
base_direction(r, p, a, a_inv) == scal(axpy(r, p, a_inv), a)

\* lines 500-506: alpha_0, the plain CG iterate xx_0, the base direction p_0
cg_m_base_direction ==
  /\ call = "cg_m" /\ pc = "base_direction"
  /\ rsq_1' = dotc(r_0, r_0)
  /\ alpha_0' = Div(rsq_1', rsq_0)
  /\ alpha_0_inv' = Div(rsq_0, rsq_1')
  /\ xx_0' = axpy(p_0, xx_0, Neg(beta_0))
  /\ p_0' = base_direction(r_0, p_0, alpha_0', alpha_0_inv')
  /\ pc' = "shift_alpha"
  /\ UNCHANGED <<inputs, x, monitor, p_0_s, r_0, z_m1_s, z_0_s, z_1_s, alpha_0_s, beta_0_s,
                 Ap, beta_m1, beta_0, pAp, rsq_0, ghosts, vcopy>>

\* lines 508-510: alpha_0^sigma
cg_m_shift_alpha ==
  /\ call = "cg_m" /\ pc = "shift_alpha"
  /\ IF /\ assert_same_dimensions(z_0_s, z_1_s) /\ assert_same_dimensions(z_0_s, alpha_0_s)
        /\ assert_same_dimensions(alpha_0_s, beta_0_s)
     THEN /\ alpha_0_s' = compute_a_m(z_0_s, z_1_s, beta_0_s, beta_0, alpha_0)
          /\ pc' = "shift_xp"
     ELSE /\ pc' = "aborted"
          /\ UNCHANGED alpha_0_s
  /\ UNCHANGED <<inputs, x, monitor, p_0_s, r_0, p_0, xx_0, z_m1_s, z_0_s, z_1_s, beta_0_s,
                 Ap, scalars, ghosts, vcopy>>

\* lines 512-514: x^sigma and p^sigma
cg_m_shift_xp ==
  /\ call = "cg_m" /\ pc = "shift_xp"
  /\ IF /\ assert_same_dimensions(alpha_0_s, z_1_s) /\ assert_same_dimensions(z_1_s, beta_0_s)
        /\ assert_same_dimensions(x, p_0_s)
        /\ Len(x) = Len(r_0) * Len(alpha_0_s)
     THEN /\ x' = compute_xp_m(alpha_0_s, z_1_s, beta_0_s, r_0, x, p_0_s).x
          /\ p_0_s' = compute_xp_m(alpha_0_s, z_1_s, beta_0_s, r_0, x, p_0_s).p
          /\ pc' = "recycle"
     ELSE /\ pc' = "aborted"
          /\ UNCHANGED <<x, p_0_s>>
  /\ UNCHANGED <<inputs, monitor, r_0, p_0, xx_0, z_m1_s, z_0_s, z_1_s, alpha_0_s, beta_0_s,
                 Ap, scalars, ghosts, vcopy>>

\* lines 517-518 in the other order: z_0 <- z_1 first, then z_m1 <- z_0
cg_m_recycle_reordered ==
  /\ call = "cg_m" /\ pc = "recycle"
  /\ z_0_s' = copy(z_1_s)
  /\ z_m1_s' = copy(z_0_s')
  /\ monitor' = advance(monitor)
  /\ pc' = "loop"
  /\ UNCHANGED <<inputs, x, p_0_s, r_0, p_0, xx_0, z_1_s, alpha_0_s, beta_0_s, Ap,
                 scalars, ghosts, vcopy>>

\* lines 516-520: recycle zeta, ++monitor
cg_m_recycle ==
  /\ call = "cg_m" /\ pc = "recycle"
  /\ z_m1_s' = copy(z_0_s)
  /\ z_0_s' = copy(z_1_s)
  /\ monitor' = advance(monitor)
  /\ pc' = "loop"
  /\ UNCHANGED <<inputs, x, p_0_s, r_0, p_0, xx_0, z_1_s, alpha_0_s, beta_0_s, Ap,
                 scalars, ghosts, vcopy>>

\* ---------------------------------------------- a call of vectorize_copy
\* lines 357-375: the assertion, then the transform over [0, N_t)
vectorize_copy_call ==
  /\ call = "vectorize_copy" /\ pc = "entry"
  /\ IF vectorize_copy_ok(source, dest)
     THEN /\ dest' = vectorize_copy(source, dest)
          /\ pc' = "done"
     ELSE /\ pc' = "aborted"
          /\ UNCHANGED dest
  /\ UNCHANGED <<inputs, x, monitor, arrays, scalars, ghosts, source>>

Next ==
  \/ cg_m_sanity
  \/ cg_m_setup
  \/ cg_m_loop_test
  \/ cg_m_base_residual
  \/ cg_m_shift_zeta_beta
  \/ cg_m_base_direction
  \/ cg_m_shift_alpha
  \/ cg_m_shift_xp
  \/ cg_m_recycle
  \/ vectorize_copy_call

Spec == Init /\ [][Next]_vars

\* ------------------------------------------------------ terms of the claims
FiniteVec(v) == \A k \in 1..Len(v) : IsFinite(v[k])

EqVec(u, v) == Len(u) = Len(v) /\ \A k \in 1..Len(u) : Eq(u[k], v[k])

ZeroVec(v) == \A k \in 1..Len(v) : v[k] = Num(0)

IsSPD == A \in SPDOperators

\* block i (0-based) of the stacked x: entries i*N .. i*N+N-1
Block(v, i) == [row \in 1..N |-> v[i * N + row]]

\* b - (A + sigma_i I) x_i, for shift i (0-based)
ShiftedResidual(i) ==
  LET xi == Block(x, i)
      Axi == multiply(A, xi)
  IN  [row \in 1..N |-> Sub(b[row], Add(Axi[row], Mul(At(sigma, i), xi[row])))]

InIteration ==
  pc \in {"base_residual", "shift_zeta_beta", "base_direction", "shift_alpha", "shift_xp",
          "recycle"}

\* the monitor of the claims on convergence: finished(r) iff ||r|| <= tau
ToleranceMonitor == monitor.use_tol /\ ~monitor.use_limit

\* no division by zero has happened in the solve so far
NoBreakdown == FiniteVec(x) /\ FiniteVec(z_0_s) /\ FiniteVec(r_0)

\* (C10) Shifted-residual invariant: at every loop head of cg_m, the first
\* included, with no breakdown so far, b - (A + sigma_i I) x_i = z_0_s[i] * r_0 for
\* every shift i; and the first zeta-update runs with beta_m1 = 1 and alpha_0 = 0.
C10_ShiftedResidualInvariant ==
  /\ (call = "cg_m" /\ pc = "loop" /\ NoBreakdown) =>
       \A i \in 0..(N_s - 1) : EqVec(ShiftedResidual(i), scal(r_0, At(z_0_s, i)))
  /\ (call = "cg_m" /\ pc = "shift_zeta_beta" /\ monitor.iteration_count = 0) =>
       (beta_m1 = Num(1) /\ alpha_0 = Num(0))

C10_Witness ==
  /\ call = "cg_m" /\ pc = "loop" /\ NoBreakdown
  /\ monitor.iteration_count = 2
  /\ N_s >= 2
  /\ \E i \in 0..(N_s - 1) : At(z_0_s, i) # Num(1) /\ ~ZeroVec(Block(x, i))
  /\ IsSPD
  /\ ~ZeroVec(r_0)

NormSq(v) == dotc(v, v)

ResidualsWithinTolerance ==
  \A i \in 0..(N_s - 1) : Leq(NormSq(ShiftedResidual(i)), monitor.tol_sq)

NonNegativeShifts == \A i \in 1..N_s : Leq(Num(0), sigma[i])

\* (C1, as stated) Per-shift residual at convergence, for any shift values: when
\* cg_m returns under a monitor that finishes iff ||r|| <= tau, with A SPD and no
\* breakdown, ||(A + sigma_i I) x_i - b|| <= tau for every shift i.
C1_AnyShift ==
  (call = "cg_m" /\ pc = "done" /\ ToleranceMonitor /\ IsSPD /\ NoBreakdown) =>
    ResidualsWithinTolerance

\* (C1, amended) The same for shifts sigma_i >= 0.
C1_NonNegativeShifts ==
  (call = "cg_m" /\ pc = "done" /\ ToleranceMonitor /\ IsSPD /\ NoBreakdown
     /\ NonNegativeShifts) =>
    ResidualsWithinTolerance

C1_Witness ==
  /\ call = "cg_m" /\ pc = "done" /\ ToleranceMonitor /\ IsSPD /\ NoBreakdown
  /\ NonNegativeShifts
  /\ N_s >= 2
  /\ monitor.iteration_count = 1
  /\ ~ZeroVec(r_0)
  /\ \E i \in 0..(N_s - 1) : ~ZeroVec(ShiftedResidual(i))

\* the base recurrence has divided by zero nowhere so far, except possibly by a
\* residual that has just become exactly zero
BaseFinite == FiniteVec(xx_0) /\ FiniteVec(r_0) /\ IsFinite(beta_0)

\* (C2, as stated) Degenerate shift: with sigma = [0] and A SPD, after every
\* completed iteration (the base recurrence not broken down) x equals the plain CG iterate xx_0, zeta_1 = 1, beta_0^s = beta_0,
\* alpha_0^s = alpha_0 and the stacked direction p_0_s equals the base direction p_0.
C2_EveryIteration ==
  (call = "cg_m" /\ pc \in {"loop", "done"} /\ monitor.iteration_count >= 1
     /\ sigma = <<Num(0)>> /\ IsSPD /\ BaseFinite) =>
    /\ EqVec(x, xx_0)
    /\ Eq(z_1_s[1], Num(1))
    /\ Eq(beta_0_s[1], beta_0)
    /\ Eq(alpha_0_s[1], alpha_0)
    /\ EqVec(p_0_s, p_0)

\* (C2, amended) The same while the base recurrence has not broken down; the
\* directions agree in every iteration that leaves a non-zero residual (when
\* rsq_1 = 0, alpha_0_inv is infinite and p_0 is NaN while p_0_s is 0).
C2_UntilBreakdown ==
  (call = "cg_m" /\ pc \in {"loop", "done"} /\ monitor.iteration_count >= 1
     /\ sigma = <<Num(0)>> /\ BaseFinite) =>
    /\ EqVec(x, xx_0)
    /\ Eq(z_1_s[1], Num(1))
    /\ Eq(beta_0_s[1], beta_0)
    /\ Eq(alpha_0_s[1], alpha_0)
    /\ (rsq_1 # Num(0) => EqVec(p_0_s, p_0))
    /\ (rsq_1 = Num(0) => ZeroVec(p_0_s) /\ \A k \in 1..N : IsNaN(p_0[k]))

C2_Witness ==
  /\ call = "cg_m" /\ pc = "done" /\ monitor.iteration_count = 2
  /\ sigma = <<Num(0)>> /\ BaseFinite /\ IsSPD
  /\ ~ZeroVec(x)
  /\ rsq_1 = Num(0)

\* (C3) One multiply per iteration whatever the number of shifts: at every loop
\* head and at return the number of multiplies equals the number of monitor
\* advances; none happens before the loop; the operand is the base direction p_0
\* (length N), never the stacked p_0_s.
C3_OneMultiplyPerIteration ==
  call = "cg_m" =>
    /\ pc \in {"loop", "done"} => multiplies = monitor.iteration_count
    /\ InIteration /\ pc # "base_residual" => multiplies = monitor.iteration_count + 1
    /\ pc \in {"entry", "setup", "aborted"} => multiplies = 0 /\ multiplied = <<>>
    /\ (pc = "loop" /\ monitor.iteration_count = 0) => multiplies = 0 /\ multiplied = <<>>
    /\ multiplies > 0 => Len(multiplied) = N
    /\ pc = "shift_zeta_beta" => multiplied = p_0 /\ (N_s # 1 => multiplied # p_0_s)

C3_Witness ==
  /\ call = "cg_m" /\ pc = "done"
  /\ multiplies = 2 /\ monitor.iteration_count = 2
  /\ N_s = 3
  /\ multiplied # <<>>

\* (C4) Termination is the monitor's alone: finished(r_0) is evaluated before
\* every iteration, the first included (finished on r_0 = b returns x = 0 with no
\* multiply and no advance); the call returns at the first loop head where it is
\* true and at no other point; a monitor that never finishes never lets it return.
C4_MonitorDecides ==
  /\ [](call = "cg_m" =>
         /\ pc = "done" => finished(monitor, r_0) /\ queries = monitor.iteration_count + 1
         /\ InIteration => queries = monitor.iteration_count + 1
         /\ pc = "loop" => queries = monitor.iteration_count
         /\ (pc = "done" /\ monitor.iteration_count = 0) =>
              (ZeroVec(x) /\ Len(x) = N * N_s /\ multiplies = 0 /\ r_0 = b)
         /\ (InIteration /\ monitor.iteration_count = 0) => ~finished(monitor, b)
         /\ (~monitor.use_tol /\ ~monitor.use_limit) => pc # "done")
  /\ [][(call = "cg_m" /\ pc = "loop") =>
          /\ pc' = "done" <=> finished(monitor, r_0)
          /\ pc' = "base_residual" <=> ~finished(monitor, r_0)
          /\ UNCHANGED <<x, monitor, r_0>>]_vars
  /\ [][(call = "cg_m" /\ pc' = "done") => pc \in {"loop", "done"}]_vars

C4_Witness ==
  /\ call = "cg_m" /\ pc = "done"
  /\ monitor.iteration_count = 0 /\ queries = 1
  /\ ~ZeroVec(b) /\ N_s >= 1
  /\ ZeroVec(x)

\* the three equalities of the entry checks
DimensionsAgree == A.num_rows = A.num_cols /\ Len(x) = A.num_rows * Len(sigma) /\ Len(b) = A.num_rows

\* (C5) Dimension fail-fast: a call whose dimensions disagree ends at the entry
\* checks with x not zero-filled, no local initialised, no multiply and the
\* monitor neither queried nor advanced; a call that passes them keeps the three
\* equalities for the whole solve.
C5_DimensionFailFast ==
  call = "cg_m" =>
    /\ ~DimensionsAgree => pc \in {"entry", "aborted"}
    /\ pc = "aborted" =>
         /\ ~DimensionsAgree
         /\ \A k \in 1..Len(x) : x[k] = Garbage
         /\ NoLocals
         /\ monitor.iteration_count = 0
    /\ pc \notin {"entry", "aborted"} => DimensionsAgree

C5_Witness ==
  /\ call = "cg_m" /\ pc = "aborted"
  /\ A.num_rows = A.num_cols /\ Len(b) = A.num_rows
  /\ Len(x) = A.num_rows * Len(sigma) + 1

IsIdentity == A = Identity(A.num_rows)

\* b / (1 + sigma_i), the solution of (I + sigma_i I) x_i = b
IdentitySolution(i) == [row \in 1..N |-> Div(b[row], Add(Num(1), At(sigma, i)))]

\* (C6) Identity operator: for A = Identity(N), b # 0 and shifts sigma_i # -1 the
\* first iteration computes pAp = (b, b) and beta_0 = -1, drives r_0 to exactly
\* zero and leaves x_i = b / (1 + sigma_i) in every block, all entries finite; a
\* monitor that finishes on a zero residual stops after exactly one iteration.
C6_IdentityScenario ==
  (call = "cg_m" /\ IsIdentity /\ DimensionsAgree /\ ~ZeroVec(b)
     /\ \A i \in 1..N_s : sigma[i] # Num(-1)) =>
    /\ (pc = "shift_zeta_beta" /\ monitor.iteration_count = 0) =>
         (pAp = dotc(b, b) /\ beta_0 = Num(-1) /\ ZeroVec(r_0))
    /\ (pc \in {"loop", "done"} /\ monitor.iteration_count = 1) =>
         /\ ZeroVec(r_0)
         /\ FiniteVec(x)
         /\ \A i \in 0..(N_s - 1) : Block(x, i) = IdentitySolution(i)
    /\ (pc = "loop" /\ monitor.iteration_count = 1 /\ monitor.use_tol) =>
         finished(monitor, r_0)
    /\ (pc = "done" /\ ToleranceMonitor) =>
         monitor.iteration_count = (IF Leq(dotc(b, b), monitor.tol_sq) THEN 0 ELSE 1)

C6_Witness ==
  /\ call = "cg_m" /\ pc = "done" /\ IsIdentity /\ N = 3
  /\ b = <<Num(1), Num(1), Num(1)>>
  /\ sigma = <<Num(0), Num(1), Num(2)>>
  /\ monitor.iteration_count = 1 /\ ToleranceMonitor
  /\ x = <<Num(1), Num(1), Num(1), <<1, 2>>, <<1, 2>>, <<1, 2>>, <<1, 3>>, <<1, 3>>, <<1, 3>>>>
  /\ pAp = Num(3)

\* (C7) Broadcast copy: for a source of length N >= 1 and a destination whose
\* length is a multiple of N, vectorize_copy leaves dest[j] = source[j mod N] for
\* every j, keeps the destination's length and the source; a destination whose
\* length is no multiple of N is rejected with no element written. In cg_m it
\* makes every block of p_0_s equal to b.
C7_BroadcastCopy ==
  /\ [](call = "vectorize_copy" =>
         /\ pc = "done" =>
              /\ Len(dest) % Len(source) = 0
              /\ \A j \in 0..(Len(dest) - 1) : At(dest, j) = At(source, j % Len(source))
         /\ pc = "aborted" =>
              /\ Len(dest) % Len(source) # 0
              /\ \A j \in 0..(Len(dest) - 1) : At(dest, j) = Garbage)
  /\ [](call = "cg_m" /\ pc = "loop" /\ monitor.iteration_count = 0 =>
         /\ Len(p_0_s) = N * N_s
         /\ \A i \in 0..(N_s - 1) : \A row \in 0..(N - 1) : At(p_0_s, i * N + row) = At(b, row))
  /\ [][call = "vectorize_copy" =>
          /\ source' = source
          /\ Len(dest') = Len(dest)
          /\ (pc = "entry" /\ Len(dest) % Len(source) = 0) => pc' = "done"
          /\ (pc = "entry" /\ Len(dest) % Len(source) # 0) => pc' = "aborted"]_vars
  /\ [][call = "cg_m" => b' = b]_vars

C7_Witness ==
  /\ call = "vectorize_copy" /\ pc = "done"
  /\ Len(source) = 2 /\ Len(dest) = 6
  /\ source[1] # source[2]
  /\ dest = source \o source \o source

\* (C8, as stated) Base direction: in an iteration with rsq_1 # 0 and no
\* breakdown, the two-step update leaves p_0 = alpha_0 * r_0 + p_0_old.
C8_ScaledResidual ==
  [][(call = "cg_m" /\ pc = "base_direction" /\ FiniteVec(r_0) /\ FiniteVec(p_0)
        /\ IsFinite(alpha_0') /\ rsq_1' # Num(0)) =>
       \A k \in 1..N : p_0'[k] = Add(Mul(alpha_0', r_0[k]), p_0[k])]_vars

\* (C8, amended) ... the two-step update leaves p_0 = r_0 + alpha_0 * p_0_old,
\* with alpha_0 = rsq_1 / rsq_0 and alpha_0_inv = rsq_0 / rsq_1, r_0 being the
\* residual already updated in this iteration and p_0_old the direction that was
\* multiplied.
C8_ScaledDirection ==
  [][(call = "cg_m" /\ pc = "base_direction" /\ FiniteVec(r_0) /\ FiniteVec(p_0)
        /\ IsFinite(alpha_0') /\ rsq_1' # Num(0)) =>
       /\ alpha_0' = Div(dotc(r_0, r_0), rsq_0)
       /\ alpha_0_inv' = Div(rsq_0, dotc(r_0, r_0))
       /\ Mul(alpha_0', alpha_0_inv') = Num(1)
       /\ p_0 = multiplied
       /\ r_0' = r_0
       /\ \A k \in 1..N : p_0'[k] = Add(r_0[k], Mul(alpha_0', p_0[k]))]_vars

C8_Witness ==
  /\ call = "cg_m" /\ pc = "shift_alpha"
  /\ FiniteVec(r_0) /\ FiniteVec(p_0) /\ FiniteVec(multiplied)
  /\ rsq_1 # Num(0) /\ IsFinite(alpha_0) /\ alpha_0 # Num(1)
  /\ \A k \in 1..N : p_0[k] = Add(r_0[k], Mul(alpha_0, multiplied[k]))
  /\ \E k \in 1..N : p_0[k] # Add(Mul(alpha_0, r_0[k]), multiplied[k])

\* (C9) Combined x/p update: for every flattened index k = shift*N + row,
\* x_new[k] = x_old[k] - beta_0_s[shift] * p_old[k] and
\* p_new[k] = z_1_s[shift] * r_0[row] + alpha_0_s[shift] * p_old[k], p_old being
\* the stacked direction on entry; alpha_0_s, z_1_s, beta_0_s and r_0 are unchanged.
C9_ReadsOldDirection ==
  [][(call = "cg_m" /\ pc = "shift_xp") =>
       /\ Len(x') = N * N_s /\ Len(p_0_s') = N * N_s
       /\ \A shift \in 0..(N_s - 1) : \A row \in 0..(N - 1) :
            LET k == shift * N + row
            IN  /\ At(x', k) = Sub(At(x, k), Mul(At(beta_0_s, shift), At(p_0_s, k)))
                /\ At(p_0_s', k) =
                     Add(Mul(At(z_1_s, shift), At(r_0, row)), Mul(At(alpha_0_s, shift), At(p_0_s, k)))
       /\ UNCHANGED <<alpha_0_s, z_1_s, beta_0_s, r_0>>]_vars

C9_Witness ==
  /\ call = "cg_m" /\ pc = "recycle" /\ monitor.iteration_count = 1
  /\ N_s >= 2 /\ N >= 2
  /\ FiniteVec(x) /\ FiniteVec(p_0_s)
  /\ \E i \in 0..(N_s - 1) :
       /\ At(alpha_0_s, i) \notin {Num(0), Num(1)}
       /\ ~ZeroVec(Block(p_0_s, i))
       /\ ~ZeroVec(Block(x, i))

====
